---- MODULE Spec2Model ----
(***************************************************************************)
(* isthisai-bot: the job scheduling and rate limited dispatch engine of    *)
(* bot.py (Bot.scheduler_loop, Bot.worker_loop, Bot.handle_poll_job,        *)
(* Bot.handle_fetch_and_reply), the TokenBucket of src/reddit_client.py    *)
(* and the cursor and ledger of src/storage.py.                             *)
(*                                                                         *)
(* Three threads run: the scheduler thread, the single worker thread and   *)
(* the main thread, whose signal handler raises stop_event.  A step of a   *)
(* thread is one access to shared state (the queue, the sequence counter,  *)
(* the two events, the storage, the token bucket, a collaborator call)     *)
(* together with the thread-local code that follows it.                    *)
(*                                                                         *)
(* Time is counted in ticks; one tick is the time in which the bucket      *)
(* accrues one token (60 / calls_per_minute seconds).  The clock is read   *)
(* only by TokenBucket._refill, so time passes in the model where it is    *)
(* read: each pass of consume finds any elapsed time that is at least the  *)
(* time its caller has slept.  Elapsed times that more than fill an empty  *)
(* bucket all refill to the capacity; one of them stands for all.          *)
(***************************************************************************)
EXTENDS Integers, Sequences, FiniteSets, TLC

\* ---------------------------------------------------------------- bounds
\* Stand-in for the page size 100 of handle_poll_job (limit=100, len == 100).
PageLimit == 2
\* Cap on the sequence counter _seq, which the program never bounds.
MaxSeq == 4
\* Stand-in for api_calls_per_minute: TokenBucket capacity, in tokens.
Capacity == 1
\* The last tick of the clock of the rate specification (SpecRate).
MaxTime == 5

\* ------------------------------------------------------- program constants
PollPriority == 1
ReactPriority == 2
\* consume(amount = 1.0)
Amount == 1
\* Tokens accrued per tick (the tick is chosen so that this is one).
RefillPerTick == 1

\* ------------------------------------------------------------------ values
\* The ids (comment.id, a string) of the feed's comments: two comments whose
\* body holds the trigger and one whose body does not.
TriggerIds == {"a", "b"}
CommentIds == TriggerIds \cup {"x"}
\* The payload of a poll job holds no comment id.
NoId == ""
\* A comment of the feed: its id and whether its body holds the trigger
\* (command_trigger in comment.body.lower()).
Comments == {[id |-> i, has_trigger |-> (i \in TriggerIds)] : i \in CommentIds}
\* comment.fullname is the type prefix "t1_" followed by the id.
Fullname(c) == <<"t1_", c.id>>
\* get_last_seen_id returns None when no cursor was stored.
None == <<>>
\* Every page get_comments(limit=PageLimit) can return, newest first.
Pages == UNION {[1..n -> Comments] : n \in 0..PageLimit}

QueueJob(p, s, k, c) == [priority |-> p, sequence |-> s, kind |-> k, comment_id |-> c]
NoJob == QueueJob(0, 0, "none", NoId)

\* Mutant of JobLess: jobs compare by their sequence number only.
JobLessBySequence(a, b) == a.sequence < b.sequence

\* dataclass(order=True): jobs compare by (priority, sequence) only.
JobLess(a, b) ==
    \/ a.priority < b.priority
    \/ a.priority = b.priority /\ a.sequence < b.sequence

Min(a, b) == IF a < b THEN a ELSE b

VARIABLES
    jobs,              \* Bot.jobs: the queued jobs, in the order they were put
    seq,               \* Bot._seq
    stop_event,        \* Bot.stop_event
    poll_in_progress,  \* Bot.poll_in_progress
    last_seen_id,      \* Storage: state['last_seen_id'], the cursor
    replied_ids,       \* Storage: the table replied_ids, the ledger
    tokens,            \* TokenBucket._tokens
    slept,             \* ticks the worker's time.sleep inside consume lasts at least
    now,               \* SpecRate: time.monotonic() at the last pass of consume, in ticks
    calls,             \* SpecRate: per tick, the number of outbound calls made in it
    posts,             \* per comment id, the number of comment.reply calls made
    s_pc,              \* the scheduler thread's position
    s_seq,             \* the scheduler's value returned by _next_seq
    w_pc,              \* the worker thread's position
    job,               \* the job the worker is processing
    last_seen,         \* handle_poll_job: local last_seen
    comments,          \* handle_poll_job: local comments
    idx,               \* handle_poll_job: position of the loop over reversed(comments)
    w_seq,             \* the worker's value returned by _next_seq
    outcome            \* how the worker's last finished job ended (what it logged)

shared  == <<jobs, seq, stop_event, poll_in_progress>>
storage == <<last_seen_id, replied_ids>>
bucket  == <<tokens, slept, now, calls>>
sched   == <<s_pc, s_seq>>
wlocal  == <<job, last_seen, comments, idx, w_seq>>
worker  == <<w_pc, job, last_seen, comments, idx, w_seq, outcome>>
vars    == <<jobs, seq, stop_event, poll_in_progress, last_seen_id, replied_ids,
             tokens, slept, now, calls, posts, s_pc, s_seq,
             w_pc, job, last_seen, comments, idx, w_seq, outcome>>

\* Bot.__init__ and TokenBucket.__init__, with the storage as a fresh run finds it.
Init ==
    /\ jobs = <<>>
    /\ seq = 0
    /\ stop_event = FALSE
    /\ poll_in_progress = FALSE
    /\ last_seen_id = None
    /\ replied_ids = {}
    /\ tokens = Capacity
    /\ slept = 0
    /\ now = 0
    /\ calls = [t \in 0..MaxTime |-> 0]
    /\ posts = [c \in CommentIds |-> 0]
    /\ s_pc = "top"
    /\ s_seq = 0
    /\ w_pc = "loop"
    /\ job = NoJob
    /\ last_seen = None
    /\ comments = <<>>
    /\ idx = 0
    /\ w_seq = 0
    /\ outcome = "none"

\* ------------------------------------------------------------ the queue
\* queue.PriorityQueue.put: the queue is unbounded, put never blocks.
Put(q, j) == Append(q, j)

\* Mutant of PopIndex: a FIFO queue.
PopIndexFifo(q) == 1

\* queue.PriorityQueue.get: the position of the smallest queued job.
PopIndex(q) == CHOOSE i \in 1..Len(q) : \A k \in 1..Len(q) : k = i \/ ~JobLess(q[k], q[i])

Remove(q, i) == [k \in 1..(Len(q) - 1) |-> IF k < i THEN q[k] ELSE q[k + 1]]

\* ------------------------------------------------------- the token bucket
\* Mutant of Refilled: the refill is not capped at the capacity.
RefilledUncapped(t, e) == IF e <= 0 THEN t ELSE t + e * RefillPerTick

\* TokenBucket._refill: the token count after the lazy refill.
Refilled(t, e) == IF e <= 0 THEN t ELSE Min(Capacity, t + e * RefillPerTick)

\* The elapsed times a pass of consume can find (now - self._last_refill): at
\* least the time slept, up to an idle time longer than fills an empty bucket.
Elapsed == slept..(Capacity \div RefillPerTick + 1)

\* Mutant of ConsumeAt: consume returns without waiting for the tokens.
ConsumeAtUnchecked(ok, e) ==
    LET t == Refilled(tokens, e) IN
    /\ ok = TRUE
    /\ tokens' = t - Amount
    /\ slept' = 0

\* TokenBucket.consume, one pass of its loop under the lock: either the amount
\* is taken and consume returns (ok), or the caller goes to sleep for the time
\* the shortfall takes to accrue (a whole number of ticks, at least one, so the
\* 0.01 s floor of the sleep never decides).
ConsumeAt(ok, e) ==
    LET t == Refilled(tokens, e) IN
    /\ ok = (t >= Amount)
    /\ tokens' = IF ok THEN t - Amount ELSE t
    /\ slept' = IF ok THEN 0 ELSE (Amount - t) \div RefillPerTick

\* A pass of consume made by the worker.  The clock and the log of calls are
\* kept by the rate specification only.
Consume(ok) ==
    /\ \E e \in Elapsed : ConsumeAt(ok, e)
    /\ UNCHANGED <<now, calls>>

\* ----------------------------------------------------------- main thread
\* Bot.run._shutdown: SIGINT or SIGTERM raises the stop signal.
Shutdown ==
    /\ ~stop_event
    /\ stop_event' = TRUE
    /\ UNCHANGED <<jobs, seq, poll_in_progress, storage, bucket, posts, sched, worker>>

\* ------------------------------------------------------------- scheduler
\* scheduler_loop, line 75: while not self.stop_event.is_set()
SchedCheckStop ==
    /\ s_pc = "top"
    /\ s_pc' = IF stop_event THEN "done" ELSE "check"
    /\ UNCHANGED <<shared, storage, bucket, posts, s_seq, worker>>

\* Mutant of SchedCheckFlag: the scheduler pushes a poll job on every tick.
SchedCheckFlagIgnored ==
    /\ s_pc = "check"
    /\ s_pc' = "set"
    /\ UNCHANGED <<shared, storage, bucket, posts, s_seq, worker>>

\* scheduler_loop, line 76: if not self.poll_in_progress.is_set()
SchedCheckFlag ==
    /\ s_pc = "check"
    /\ s_pc' = IF poll_in_progress THEN "wait" ELSE "set"
    /\ UNCHANGED <<shared, storage, bucket, posts, s_seq, worker>>

\* scheduler_loop, line 77: self.poll_in_progress.set()
SchedSetFlag ==
    /\ s_pc = "set"
    /\ poll_in_progress' = TRUE
    /\ s_pc' = "seq"
    /\ UNCHANGED <<jobs, seq, stop_event, storage, bucket, posts, s_seq, worker>>

\* enqueue_poll called by the scheduler: _next_seq under the lock
SchedNextSeq ==
    /\ s_pc = "seq"
    /\ seq < MaxSeq
    /\ seq' = seq + 1
    /\ s_seq' = seq + 1
    /\ s_pc' = "put"
    /\ UNCHANGED <<jobs, stop_event, poll_in_progress, storage, bucket, posts, worker>>

\* enqueue_poll called by the scheduler: self.jobs.put(QueueJob(priority=1, ...))
SchedPut ==
    /\ s_pc = "put"
    /\ jobs' = Put(jobs, QueueJob(PollPriority, s_seq, "poll", NoId))
    /\ s_seq' = 0
    /\ s_pc' = "wait"
    /\ UNCHANGED <<seq, stop_event, poll_in_progress, storage, bucket, posts, worker>>

\* Mutant of SchedWait: the wait returns into another round of the loop.
SchedWaitIgnoresStop ==
    /\ s_pc = "wait"
    /\ s_pc' = "check"
    /\ UNCHANGED <<shared, storage, bucket, posts, s_seq, worker>>

\* scheduler_loop, lines 79 and 75: self.stop_event.wait(poll_interval_seconds)
\* returns, on the timeout or because the stop signal was raised, and the
\* condition of the while loop reads the stop signal.
SchedWait ==
    /\ s_pc = "wait"
    /\ s_pc' = IF stop_event THEN "done" ELSE "check"
    /\ UNCHANGED <<shared, storage, bucket, posts, s_seq, worker>>

\* ---------------------------------------------------------------- worker
\* The worker is back at the top of worker_loop; the job's locals are gone.
Finish(out) ==
    /\ w_pc' = "loop"
    /\ job' = NoJob
    /\ last_seen' = None
    /\ comments' = <<>>
    /\ idx' = 0
    /\ w_seq' = 0
    /\ outcome' = out

\* An exception leaves handle_poll_job: worker_loop's except clause is next.
RaiseInPoll ==
    /\ w_pc' = "poll_except"
    /\ UNCHANGED <<wlocal, outcome>>

\* worker_loop, line 82: while not self.stop_event.is_set()
WorkerCheckStop ==
    /\ w_pc = "loop"
    /\ w_pc' = IF stop_event THEN "done" ELSE "get"
    /\ UNCHANGED <<shared, storage, bucket, posts, sched, wlocal, outcome>>

\* worker_loop, lines 84-92: self.jobs.get(timeout=0.5), then the dispatch by kind
WorkerGet ==
    /\ w_pc = "get"
    /\ IF jobs = <<>>
       THEN /\ w_pc' = "loop"
            /\ UNCHANGED <<jobs, job>>
       ELSE LET i == PopIndex(jobs) IN
            /\ job' = jobs[i]
            /\ jobs' = Remove(jobs, i)
            /\ w_pc' = IF jobs[i].kind = "poll" THEN "poll_cursor" ELSE "react_check"
    /\ UNCHANGED <<seq, stop_event, poll_in_progress, storage, bucket, posts, sched,
                   last_seen, comments, idx, w_seq, outcome>>

\* Mutant of PollExcept: the failure of a poll job ends worker_loop.
PollExceptEndsLoop ==
    /\ w_pc = "poll_except"
    /\ poll_in_progress' = FALSE
    /\ w_pc' = "done"
    /\ job' = NoJob
    /\ last_seen' = None
    /\ comments' = <<>>
    /\ idx' = 0
    /\ w_seq' = 0
    /\ outcome' = "poll_failed"
    /\ UNCHANGED <<jobs, seq, stop_event, storage, bucket, posts, sched>>

\* Mutant of PollExcept: the except clause forgets to clear the flag.
PollExceptKeepsFlag ==
    /\ w_pc = "poll_except"
    /\ Finish("poll_failed")
    /\ UNCHANGED <<shared, storage, bucket, posts, sched>>

\* worker_loop, lines 93-98: the except clause after a failed poll job
PollExcept ==
    /\ w_pc = "poll_except"
    /\ poll_in_progress' = FALSE
    /\ Finish("poll_failed")
    /\ UNCHANGED <<jobs, seq, stop_event, storage, bucket, posts, sched>>

\* Mutant of PollGetLastSeen: the page is fetched from the start of the feed.
PollGetLastSeenForgets ==
    /\ w_pc = "poll_cursor"
    /\ \/ /\ last_seen' = None
          /\ w_pc' = "poll_fetch"
          /\ UNCHANGED <<job, comments, idx, w_seq, outcome>>
       \/ RaiseInPoll
    /\ UNCHANGED <<shared, storage, bucket, posts, sched>>

\* handle_poll_job, line 101: last_seen = self.storage.get_last_seen_id()
PollGetLastSeen ==
    /\ w_pc = "poll_cursor"
    /\ \/ /\ last_seen' = last_seen_id
          /\ w_pc' = "poll_fetch"
          /\ UNCHANGED <<job, comments, idx, w_seq, outcome>>
       \/ RaiseInPoll
    /\ UNCHANGED <<shared, storage, bucket, posts, sched>>

\* handle_poll_job, line 102: RateLimitedReddit.get_comments(limit=100, after=last_seen)
PollGetComments ==
    /\ w_pc = "poll_fetch"
    /\ \E ok \in BOOLEAN :
        /\ Consume(ok)
        /\ IF ok
           THEN \/ \E page \in Pages :
                    /\ comments' = page
                    /\ w_pc' = "poll_page"
                    /\ UNCHANGED <<job, last_seen, idx, w_seq, outcome>>
                \/ RaiseInPoll
           ELSE UNCHANGED worker
    /\ UNCHANGED <<shared, storage, posts, sched>>

\* Mutant of PollEmptyPage: the empty page forgets the cursor.
PollEmptyPageResetsCursor ==
    /\ w_pc = "poll_page"
    /\ comments = <<>>
    /\ poll_in_progress' = FALSE
    /\ last_seen_id' = None
    /\ Finish("poll_empty")
    /\ UNCHANGED <<jobs, seq, stop_event, replied_ids, bucket, posts, sched>>

\* Mutant of PollEmptyPage: the empty page returns without clearing the flag.
PollEmptyPageKeepsFlag ==
    /\ w_pc = "poll_page"
    /\ comments = <<>>
    /\ Finish("poll_empty")
    /\ UNCHANGED <<shared, storage, bucket, posts, sched>>

\* handle_poll_job, lines 104-106: the page is empty
PollEmptyPage ==
    /\ w_pc = "poll_page"
    /\ comments = <<>>
    /\ poll_in_progress' = FALSE
    /\ Finish("poll_empty")
    /\ UNCHANGED <<jobs, seq, stop_event, storage, bucket, posts, sched>>

\* Mutant of PollSetLastSeen: the cursor is set to the oldest comment of the page.
PollSetLastSeenOldest ==
    /\ w_pc = "poll_page"
    /\ comments # <<>>
    /\ \/ /\ last_seen_id' = Fullname(comments[Len(comments)])
          /\ idx' = Len(comments)
          /\ w_pc' = "poll_scan"
          /\ UNCHANGED <<job, last_seen, comments, w_seq, outcome>>
       \/ /\ RaiseInPoll
          /\ UNCHANGED last_seen_id
    /\ UNCHANGED <<shared, replied_ids, bucket, posts, sched>>

\* handle_poll_job, line 109: self.storage.set_last_seen_id(comments[0].fullname)
PollSetLastSeen ==
    /\ w_pc = "poll_page"
    /\ comments # <<>>
    /\ \/ /\ last_seen_id' = Fullname(comments[1])
          /\ idx' = Len(comments)
          /\ w_pc' = "poll_scan"
          /\ UNCHANGED <<job, last_seen, comments, w_seq, outcome>>
       \/ /\ RaiseInPoll
          /\ UNCHANGED last_seen_id
    /\ UNCHANGED <<shared, replied_ids, bucket, posts, sched>>

\* Mutant of PollScan: the ledger is not looked up before the reply job is pushed.
PollScanNoLedger ==
    /\ w_pc = "poll_scan"
    /\ idx > 0
    /\ IF ~comments[idx].has_trigger
       THEN /\ idx' = idx - 1
            /\ UNCHANGED <<w_pc, job, last_seen, comments, w_seq, outcome>>
       ELSE /\ w_pc' = "poll_react_seq"
            /\ UNCHANGED <<wlocal, outcome>>
    /\ UNCHANGED <<shared, storage, bucket, posts, sched>>

\* handle_poll_job, lines 111-115: one comment of reversed(comments), up to the
\* call of enqueue_fetch_reply
PollScan ==
    /\ w_pc = "poll_scan"
    /\ idx > 0
    /\ IF ~comments[idx].has_trigger
       THEN /\ idx' = idx - 1
            /\ UNCHANGED <<w_pc, job, last_seen, comments, w_seq, outcome>>
       ELSE \/ /\ comments[idx].id \in replied_ids
               /\ idx' = idx - 1
               /\ UNCHANGED <<w_pc, job, last_seen, comments, w_seq, outcome>>
            \/ /\ comments[idx].id \notin replied_ids
               /\ w_pc' = "poll_react_seq"
               /\ UNCHANGED <<wlocal, outcome>>
            \/ RaiseInPoll
    /\ UNCHANGED <<shared, storage, bucket, posts, sched>>

\* enqueue_fetch_reply called by handle_poll_job: _next_seq under the lock
PollReactNextSeq ==
    /\ w_pc = "poll_react_seq"
    /\ seq < MaxSeq
    /\ seq' = seq + 1
    /\ w_seq' = seq + 1
    /\ w_pc' = "poll_react_put"
    /\ UNCHANGED <<jobs, stop_event, poll_in_progress, storage, bucket, posts, sched,
                   job, last_seen, comments, idx, outcome>>

\* Mutant of PollReactPut: the reply job is not put on the queue.
PollReactPutDropped ==
    /\ w_pc = "poll_react_put"
    /\ w_seq' = 0
    /\ idx' = idx - 1
    /\ w_pc' = "poll_scan"
    /\ UNCHANGED <<jobs, seq, stop_event, poll_in_progress, storage, bucket, posts, sched,
                   job, last_seen, comments, outcome>>

\* enqueue_fetch_reply called by handle_poll_job: self.jobs.put(QueueJob(priority=2, ...))
PollReactPut ==
    /\ w_pc = "poll_react_put"
    /\ jobs' = Put(jobs, QueueJob(ReactPriority, w_seq, "fetch_and_reply", comments[idx].id))
    /\ w_seq' = 0
    /\ idx' = idx - 1
    /\ w_pc' = "poll_scan"
    /\ UNCHANGED <<seq, stop_event, poll_in_progress, storage, bucket, posts, sched,
                   job, last_seen, comments, outcome>>

\* handle_poll_job, lines 117-120: the page is full, _next_seq of enqueue_poll
PollChainNextSeq ==
    /\ w_pc = "poll_scan"
    /\ idx = 0
    /\ Len(comments) = PageLimit
    /\ seq < MaxSeq
    /\ seq' = seq + 1
    /\ w_seq' = seq + 1
    /\ w_pc' = "poll_chain_put"
    /\ UNCHANGED <<jobs, stop_event, poll_in_progress, storage, bucket, posts, sched,
                   job, last_seen, comments, idx, outcome>>

\* handle_poll_job, line 118: the put of enqueue_poll; the job is done
PollChainPut ==
    /\ w_pc = "poll_chain_put"
    /\ jobs' = Put(jobs, QueueJob(PollPriority, w_seq, "poll", NoId))
    /\ Finish("poll_chained")
    /\ UNCHANGED <<seq, stop_event, poll_in_progress, storage, bucket, posts, sched>>

\* Mutant of PollEndCycle: the cycle ends whatever the length of the page.
PollEndCycleAlways ==
    /\ w_pc = "poll_scan"
    /\ idx = 0
    /\ poll_in_progress' = FALSE
    /\ Finish("poll_ended")
    /\ UNCHANGED <<jobs, seq, stop_event, storage, bucket, posts, sched>>

\* handle_poll_job, lines 117-120: the page is not full, the cycle ends
PollEndCycle ==
    /\ w_pc = "poll_scan"
    /\ idx = 0
    /\ Len(comments) # PageLimit
    /\ poll_in_progress' = FALSE
    /\ Finish("poll_ended")
    /\ UNCHANGED <<jobs, seq, stop_event, storage, bucket, posts, sched>>

\* Mutant of ReactHasReplied: the ledger is not looked up.
ReactHasRepliedSkipped ==
    /\ w_pc = "react_check"
    /\ w_pc' = "react_comment"
    /\ UNCHANGED <<wlocal, outcome>>
    /\ UNCHANGED <<shared, storage, bucket, posts, sched>>

\* handle_fetch_and_reply, lines 123-124: if self.storage.has_replied(comment_id): return
ReactHasReplied ==
    /\ w_pc = "react_check"
    /\ \/ /\ job.comment_id \in replied_ids
          /\ Finish("react_noop")
       \/ /\ job.comment_id \notin replied_ids
          /\ w_pc' = "react_comment"
          /\ UNCHANGED <<wlocal, outcome>>
       \/ Finish("react_failed")
    /\ UNCHANGED <<shared, storage, bucket, posts, sched>>

\* handle_fetch_and_reply, line 126: RateLimitedReddit.fetch_comment(comment_id)
ReactFetchComment ==
    /\ w_pc = "react_comment"
    /\ \E ok \in BOOLEAN :
        /\ Consume(ok)
        /\ IF ok
           THEN \/ /\ w_pc' = "react_submission"
                   /\ UNCHANGED <<wlocal, outcome>>
                \/ Finish("react_failed")
           ELSE UNCHANGED worker
    /\ UNCHANGED <<shared, storage, posts, sched>>

\* Mutant of ReactFetchParent: a submission without text is recorded without a reply.
ReactFetchParentSkipsFallback ==
    /\ w_pc = "react_submission"
    /\ \E ok \in BOOLEAN :
        /\ Consume(ok)
        /\ IF ok
           THEN \/ /\ w_pc' \in {"react_fallback_mark", "react_detect"}
                   /\ UNCHANGED <<wlocal, outcome>>
                \/ Finish("react_failed")
           ELSE UNCHANGED worker
    /\ UNCHANGED <<shared, storage, posts, sched>>

\* handle_fetch_and_reply, lines 127-130: RateLimitedReddit.fetch_parent_submission,
\* then the branch on the submission's text being empty
ReactFetchParent ==
    /\ w_pc = "react_submission"
    /\ \E ok \in BOOLEAN :
        /\ Consume(ok)
        /\ IF ok
           THEN \/ /\ w_pc' \in {"react_fallback_post", "react_detect"}
                   /\ UNCHANGED <<wlocal, outcome>>
                \/ Finish("react_failed")
           ELSE UNCHANGED worker
    /\ UNCHANGED <<shared, storage, posts, sched>>

\* Mutant of ReactDetect: a failed classification puts the job back on the queue.
ReactDetectRequeues ==
    /\ w_pc = "react_detect"
    /\ \/ /\ w_pc' = "react_post"
          /\ UNCHANGED <<wlocal, outcome, jobs>>
       \/ /\ Finish("react_failed")
          /\ jobs' = Put(jobs, job)
    /\ UNCHANGED <<seq, stop_event, poll_in_progress, storage, bucket, posts, sched>>

\* handle_fetch_and_reply, lines 139-157: self.detector.detect(text) and the reply body
ReactDetect ==
    /\ w_pc = "react_detect"
    /\ \/ /\ w_pc' = "react_post"
          /\ UNCHANGED <<wlocal, outcome>>
       \/ Finish("react_failed")
    /\ UNCHANGED <<shared, storage, bucket, posts, sched>>

\* handle_fetch_and_reply, lines 135 and 159: RateLimitedReddit.post_reply(comment, body)
ReactPostReply ==
    /\ w_pc \in {"react_fallback_post", "react_post"}
    /\ \E ok \in BOOLEAN :
        /\ Consume(ok)
        /\ IF ok
           THEN /\ posts' = [posts EXCEPT ![job.comment_id] = @ + 1]
                /\ \/ /\ w_pc' = IF w_pc = "react_post" THEN "react_mark"
                                                        ELSE "react_fallback_mark"
                      /\ UNCHANGED <<wlocal, outcome>>
                   \/ Finish("react_failed")
           ELSE UNCHANGED <<posts, worker>>
    /\ UNCHANGED <<shared, storage, sched>>

\* handle_fetch_and_reply, lines 136 and 160: self.storage.mark_replied(comment_id)
ReactMarkReplied ==
    /\ w_pc \in {"react_fallback_mark", "react_mark"}
    /\ \/ /\ replied_ids' = replied_ids \cup {job.comment_id}
          /\ Finish("react_replied")
       \/ /\ Finish("react_failed")
          /\ UNCHANGED replied_ids
    /\ UNCHANGED <<shared, last_seen_id, bucket, posts, sched>>

\* ------------------------------------------------------- the specification
Scheduler ==
    \/ SchedCheckStop
    \/ SchedCheckFlag
    \/ SchedSetFlag
    \/ SchedNextSeq
    \/ SchedPut
    \/ SchedWait

Worker ==
    \/ WorkerCheckStop
    \/ WorkerGet
    \/ PollExcept
    \/ PollGetLastSeen
    \/ PollGetComments
    \/ PollEmptyPage
    \/ PollSetLastSeen
    \/ PollScan
    \/ PollReactNextSeq
    \/ PollReactPut
    \/ PollChainNextSeq
    \/ PollChainPut
    \/ PollEndCycle
    \/ ReactHasReplied
    \/ ReactFetchComment
    \/ ReactFetchParent
    \/ ReactDetect
    \/ ReactPostReply
    \/ ReactMarkReplied

Next == Scheduler \/ Worker \/ Shutdown

Spec == Init /\ [][Next]_vars

\* ------------------------------------------------- the end of the process
\* Bot.run, lines 183-187: the main loop sees the stop signal, the two joins
\* return, each because its thread has ended or because its 2 s timeout has
\* expired, and run returns.  The interpreter exits and the scheduler and the
\* worker, daemon threads, end with it wherever they are.
Exit ==
    /\ stop_event
    /\ s_pc # "exited"
    /\ s_pc' = "exited"
    /\ w_pc' = "exited"
    /\ UNCHANGED <<shared, storage, bucket, posts, s_seq, wlocal, outcome>>

NextRun == Next \/ Exit

\* The engine from its start to the end of the process.
SpecRun == Init /\ [][NextRun]_vars

\* ------------------------------------------------- the rate specification
\* RateLimitedReddit under any sequence of calls of one thread, with a clock.
\* The caller is outside the four methods (w_pc = "loop") or inside the consume
\* of one of them.  A pass of that consume reads the clock, e ticks after the
\* pass before; when consume returns, the call to the feed is made and logged
\* at that tick.
OutboundCall(method) ==
    /\ w_pc \in {"loop", method}
    /\ \E e \in Elapsed, ok \in BOOLEAN :
        /\ now + e <= MaxTime
        /\ ConsumeAt(ok, e)
        /\ now' = now + e
        /\ calls' = IF ok THEN [calls EXCEPT ![now + e] = @ + 1] ELSE calls
        /\ w_pc' = IF ok THEN "loop" ELSE method
    /\ UNCHANGED <<shared, storage, posts, sched, wlocal, outcome>>

\* RateLimitedReddit.get_comments: self._bucket.consume(), then the listing
GetComments == OutboundCall("get_comments")

\* RateLimitedReddit.fetch_parent_submission: consume, then comment.submission
FetchParentSubmission == OutboundCall("fetch_parent_submission")

\* RateLimitedReddit.fetch_comment: consume, then reddit.comment(id)
FetchComment == OutboundCall("fetch_comment")

\* RateLimitedReddit.post_reply: consume, then comment.reply(body)
PostReply == OutboundCall("post_reply")

NextRate == GetComments \/ FetchParentSubmission \/ FetchComment \/ PostReply

SpecRate == Init /\ [][NextRate]_vars

\* ------------------------------------------------------------ properties
\* The number of poll jobs in a queue.
NumPolls(q) == Cardinality({i \in 1..Len(q) : q[i].kind = "poll"})

\* The poll jobs that are queued or being handled by the worker.
ActivePolls == NumPolls(jobs) + (IF job.kind = "poll" THEN 1 ELSE 0)

\* The scheduler has set the flag and is inside enqueue_poll.
SchedIsEnqueuing == s_pc \in {"seq", "put"}

\* C1: at most one poll job is queued or being handled at any time.
C1_AtMostOnePoll == ActivePolls <= 1

\* C1 witness: the worker handles the poll job chained by the previous one, the
\* flag is set and the scheduler waits.
C1_Witness ==
    /\ job.kind = "poll"
    /\ outcome = "poll_chained"
    /\ poll_in_progress
    /\ s_pc = "wait"
    /\ ActivePolls = 1

\* C2 as stated: whenever the flag is set, a poll job is queued or being handled.
C2_FlagImpliesPoll == poll_in_progress => ActivePolls >= 1

\* C2, amended: whenever the flag is set, a poll job is queued or being handled,
\* or the scheduler has just set the flag and is pushing the cycle's first job.
C2_FlagImpliesPollOrEnqueuing ==
    poll_in_progress => (ActivePolls >= 1 \/ SchedIsEnqueuing)

\* C2 witness: the flag is set, the scheduler waits and the cycle's poll job is
\* queued behind a worker that is busy with a reply job.
C2_Witness ==
    /\ poll_in_progress
    /\ s_pc = "wait"
    /\ NumPolls(jobs) = 1
    /\ job.kind = "fetch_and_reply"

\* C3: a failed poll job ends with the flag cleared and without a poll job
\* pushed by the worker; the flag then stays clear until the scheduler sets it,
\* and the scheduler's next tick finds it clear, sets it and pushes one poll job.
C3_PollFailure ==
    [][ /\ (w_pc # "poll_except" /\ w_pc' = "poll_except") => jobs' = jobs
        /\ (w_pc = "poll_except" /\ w_pc' # "poll_except") =>
              /\ ~poll_in_progress'
              /\ jobs' = jobs
              /\ w_pc' = "loop"
        /\ (~poll_in_progress /\ poll_in_progress') => (s_pc = "set" /\ s_pc' = "seq")
        /\ (s_pc = "check" /\ s_pc' # "check" /\ ~poll_in_progress) => s_pc' = "set"
        /\ (s_pc = "set" /\ s_pc' # "set") => poll_in_progress'
        /\ (s_pc = "put" /\ s_pc' # "put") =>
              /\ Len(jobs') = Len(jobs) + 1
              /\ NumPolls(jobs') = NumPolls(jobs) + 1
              /\ poll_in_progress'
      ]_vars

\* C3 witness: after a failed poll job the scheduler has started a fresh cycle.
C3_Witness ==
    /\ outcome = "poll_failed"
    /\ job = NoJob
    /\ poll_in_progress
    /\ NumPolls(jobs) = 1

\* The worker is in handle_poll_job after the cursor write of line 109.
AfterCursorWrite == w_pc \in {"poll_scan", "poll_react_seq", "poll_react_put", "poll_chain_put"}

\* The step puts a reply job on the queue.
ReactPushed ==
    /\ Len(jobs') = Len(jobs) + 1
    /\ jobs'[Len(jobs')].kind = "fetch_and_reply"

\* The step ends a poll job that went through a non-empty page without an error.
PollCompleted ==
    /\ job.kind = "poll"
    /\ job' = NoJob
    /\ outcome' \in {"poll_chained", "poll_ended"}

\* C4: from the cursor write of a poll job on, and when the job ends, the
\* stored cursor is the fullname of the first comment of the page; every reply
\* job of the page is pushed after that write.
C4_CursorFirst ==
    [][ /\ AfterCursorWrite => (comments # <<>> /\ last_seen_id = Fullname(comments[1]))
        /\ ReactPushed => (AfterCursorWrite /\ last_seen_id = Fullname(comments[1]))
        /\ PollCompleted => (comments # <<>> /\ last_seen_id' = Fullname(comments[1]))
      ]_vars

\* C4 witness: a poll job over a page whose newest comment is "x" has ended; the
\* cursor names "x" and the reply job for the page's older comment is queued.
C4_Witness ==
    /\ outcome = "poll_ended"
    /\ job = NoJob
    /\ last_seen_id = <<"t1_", "x">>
    /\ \E i \in 1..Len(jobs) : jobs[i].kind = "fetch_and_reply"

\* C5: a poll job over a non-empty page pushes no poll job before its last
\* step; it ends, when the page is full, by pushing exactly one poll job with
\* the flag left set and, when the page is not full, by clearing the flag
\* without pushing a job.
C5_ChainOrEnd ==
    [][ /\ (job.kind = "poll" /\ job' = job) => NumPolls(jobs') = NumPolls(jobs)
        /\ PollCompleted =>
              IF Len(comments) = PageLimit
              THEN /\ Len(jobs') = Len(jobs) + 1
                   /\ NumPolls(jobs') = NumPolls(jobs) + 1
                   /\ poll_in_progress /\ poll_in_progress'
              ELSE /\ jobs' = jobs
                   /\ ~poll_in_progress'
      ]_vars

\* C5 witness: a poll job over a full page has ended; its successor is queued
\* and the flag is set.
C5_Witness ==
    /\ outcome = "poll_chained"
    /\ job = NoJob
    /\ poll_in_progress
    /\ NumPolls(jobs) = 1

\* C6: a poll job changes neither cursor, ledger nor queue before it has its
\* page, and on an empty page it clears the flag and ends, with cursor, ledger,
\* queue and sequence counter unchanged.
C6_EmptyPage ==
    [][ /\ w_pc \in {"poll_cursor", "poll_fetch"} =>
              UNCHANGED <<last_seen_id, replied_ids, jobs, seq, poll_in_progress>>
        /\ (w_pc = "poll_page" /\ comments = <<>> /\ w_pc' # w_pc) =>
              /\ ~poll_in_progress'
              /\ w_pc' = "loop"
              /\ UNCHANGED <<last_seen_id, replied_ids, jobs, seq>>
      ]_vars

\* C6 witness: a poll job that found an empty page has ended; the flag is
\* clear, the cursor an earlier page left is still stored, no poll job is queued.
C6_Witness ==
    /\ outcome = "poll_empty"
    /\ ~poll_in_progress
    /\ last_seen_id # None
    /\ NumPolls(jobs) = 0

\* The comments of the page the loop of lines 111-115 is through with, in the
\* order of the loop (reversed(comments): oldest first).
Scanned ==
    LET n == Len(comments)
    IN [k \in 1..(n - idx) |-> comments[n + 1 - k]]

\* A comment the loop pushes a reply job for: the trigger is in its body and its
\* id is not in the ledger.
Eligible(c) == c.has_trigger /\ c.id \notin replied_ids

\* The jobs pushed since the poll job being handled was created, in push order.
PushedByPoll == SelectSeq(jobs, LAMBDA j : j.sequence > job.sequence)

\* C7: while a poll job is in its loop and after it, the jobs it has pushed are
\* reply jobs, one for each eligible comment the loop is through with and no
\* other, in the order of the loop (oldest comment first) and with increasing
\* sequence numbers; a comment the loop is about to push a job for is eligible.
C7_ReactJobs ==
    w_pc \in {"poll_scan", "poll_react_seq", "poll_react_put"} =>
        LET want == SelectSeq(Scanned, Eligible)
            got  == PushedByPoll
        IN /\ Len(got) = Len(want)
           /\ \A k \in 1..Len(got) :
                /\ got[k].kind = "fetch_and_reply"
                /\ got[k].priority = ReactPriority
                /\ got[k].comment_id = want[k].id
           /\ \A k \in 1..(Len(got) - 1) : got[k].sequence < got[k + 1].sequence
           /\ w_pc # "poll_scan" => Eligible(comments[idx])

\* C7 witness: the loop is through with the page of "a" (newest) and "b"; the
\* reply job for "b" was pushed before the one for "a".
C7_Witness ==
    /\ w_pc = "poll_scan"
    /\ idx = 0
    /\ comments = <<[id |-> "a", has_trigger |-> TRUE], [id |-> "b", has_trigger |-> TRUE]>>
    /\ Len(PushedByPoll) = 2
    /\ PushedByPoll[1].comment_id = "b"
    /\ PushedByPoll[2].comment_id = "a"

\* C8: a reply job whose comment id is in the ledger ends at the ledger lookup:
\* no call of comment.reply, no token taken, and ledger, cursor, flag, queue and
\* sequence counter unchanged.
C8_ReactNoop ==
    [][ (w_pc = "react_check" /\ job.comment_id \in replied_ids /\ w_pc' # w_pc) =>
            /\ w_pc' = "loop"
            /\ outcome' \in {"react_noop", "react_failed"}
            /\ UNCHANGED <<posts, tokens, slept, replied_ids, last_seen_id,
                           poll_in_progress, jobs, seq>>
      ]_vars

\* C8 witness: a second reply job for "a" ended as a no-op after the first one
\* had replied and marked "a"; comment.reply was called once.
C8_Witness ==
    /\ outcome = "react_noop"
    /\ replied_ids = {"a"}
    /\ posts["a"] = 1
    /\ posts["b"] = 0

\* C9: the sequence numbers of the queued jobs are distinct and at most _seq,
\* queued jobs of equal priority have sequence numbers that increase in push
\* order, _seq never decreases, a put appends a job with a sequence number no
\* queued job has, and get removes a job that no queued job is smaller than.
C9_QueueOrder ==
    [][ /\ \A i, k \in 1..Len(jobs) :
              /\ jobs[i].sequence \in 1..seq
              /\ i < k => jobs[i].sequence # jobs[k].sequence
              /\ (i < k /\ jobs[i].priority = jobs[k].priority) =>
                     jobs[i].sequence < jobs[k].sequence
        /\ seq' >= seq
        /\ Len(jobs') > Len(jobs) =>
              /\ jobs' = Append(jobs, jobs'[Len(jobs')])
              /\ \A i \in 1..Len(jobs) : jobs[i].sequence # jobs'[Len(jobs')].sequence
        /\ Len(jobs') < Len(jobs) =>
              /\ \E i \in 1..Len(jobs) : job' = jobs[i] /\ jobs' = Remove(jobs, i)
              /\ \A k \in 1..Len(jobs) : ~JobLess(jobs[k], job')
      ]_vars

\* C9 witness: of two queued reply jobs the worker got the one pushed first;
\* the other one is still queued.
C9_Witness ==
    /\ w_pc = "react_check"
    /\ job.sequence = 2
    /\ \E i \in 1..Len(jobs) : jobs[i].kind = "fetch_and_reply" /\ jobs[i].sequence = 3

\* C10: the token count is never negative and never above the capacity.
C10_TokensInRange == 0 <= tokens /\ tokens <= Capacity

\* C10 witness: the bucket is empty and a consume is waiting for a token.
C10_Witness == tokens = 0 /\ slept > 0

\* The number of outbound calls made in the ticks a..b.
RECURSIVE CallsIn(_, _)
CallsIn(a, b) == IF a > b THEN 0 ELSE calls[a] + CallsIn(a + 1, b)

\* C11: every outbound call follows a consume that found the amount in the
\* bucket, so the calls made in any interval of ticks a..b are at most the
\* capacity plus what the bucket accrues in b - a ticks.
C11_RateBound ==
    /\ tokens >= 0
    /\ \A a \in 0..MaxTime : \A b \in a..MaxTime :
           CallsIn(a, b) <= Capacity + RefillPerTick * (b - a)

\* C11 witness: the caller has taken every token as soon as it accrued, for
\* three ticks, and the next call waits inside consume for its token.
C11_Witness ==
    /\ CallsIn(0, 2) = Capacity + RefillPerTick * 2
    /\ w_pc = "post_reply"
    /\ slept > 0

\* C12: once the stop signal is raised while the scheduler is in its interval
\* wait, the scheduler leaves the wait only to the end of its loop, and from
\* then on the flag is never set and the only poll jobs pushed are those the
\* worker chains.
C12_StopEndsScheduler ==
    [][(stop_event /\ s_pc \in {"wait", "done"}) =>
          /\ s_pc' \in {s_pc, "done"}
          /\ s_seq' = s_seq
          /\ poll_in_progress' => poll_in_progress
          /\ NumPolls(jobs') > NumPolls(jobs) => w_pc = "poll_chain_put"]_vars

\* C12 witness: the scheduler pushed a cycle's poll job, the cycle ended, the
\* stop signal came during the wait and the scheduler has left its loop with
\* the flag clear and no poll job queued, the worker still running.
C12_Witness ==
    /\ s_pc = "done"
    /\ seq >= 1
    /\ stop_event
    /\ ~poll_in_progress
    /\ ActivePolls = 0
    /\ w_pc = "get"

\* C13: when the process ends, no dequeued job is left unfinished: the worker
\* has run every job it took from the queue to its last step.
C13_DequeuedJobCompletes == s_pc = "exited" => job = NoJob

\* C14 as stated: comment.reply is called at most once for any comment id.
C14_PostAtMostOnce == \A c \in CommentIds : posts[c] <= 1

\* C14, amended: comment.reply is called only by the job of that comment and
\* only while the comment's id is not in the ledger; it is called again for an
\* id when an earlier job for it failed after the call.
C14_PostOnlyOutsideLedger ==
    [][\A c \in CommentIds :
          posts'[c] # posts[c] =>
              /\ posts'[c] = posts[c] + 1
              /\ c = job.comment_id
              /\ c \notin replied_ids]_vars

\* C14 witness: two jobs were pushed for comment a; the first one failed after
\* its call of comment.reply, the second one has called it again and has
\* recorded the id.
C14_Witness ==
    /\ posts["a"] = 2
    /\ "a" \in replied_ids
    /\ outcome = "react_replied"

\* The worker's step ends the job it is handling.
JobEnds == job # NoJob /\ job' = NoJob

\* The job the worker is handling leaves with a failure.
JobFails == JobEnds /\ outcome' \in {"poll_failed", "react_failed"}

\* The poll job being handled has persisted the cursor of its page.
CursorPersisted ==
    /\ job.kind = "poll"
    /\ comments # <<>>
    /\ last_seen_id = Fullname(comments[1])

\* The job being handled is the one that has to bring comment c to its reply:
\* the reply job of c, or the poll job whose persisted page shows c with the
\* trigger and outside the ledger.
Owes(c) ==
    \/ job.kind = "fetch_and_reply" /\ job.comment_id = c
    \/ /\ CursorPersisted
       /\ c \notin replied_ids
       /\ \E k \in 1..Len(comments) : comments[k].id = c /\ comments[k].has_trigger

\* After the step, comment.reply has been called for c, or c is in the ledger,
\* or a reply job for c is queued.
AttemptedOrQueued(c) ==
    \/ posts'[c] > 0
    \/ c \in replied_ids'
    \/ \E i \in 1..Len(jobs') : jobs'[i].kind = "fetch_and_reply" /\ jobs'[i].comment_id = c

C17_ReactFailureDropsJob ==
    [][/\ (JobFails /\ job.kind = "fetch_and_reply") =>
              /\ jobs' = jobs
              /\ seq' = seq
              /\ poll_in_progress' = poll_in_progress
              /\ last_seen_id' = last_seen_id
              /\ replied_ids' = replied_ids
       /\ Len(jobs') > Len(jobs) /\ jobs'[Len(jobs')].kind = "fetch_and_reply" =>
              w_pc = "poll_react_put"]_vars

\* C17 witness: a reply job has failed after its call of comment.reply (the
\* call or the ledger write raised): the comment is not in the ledger and no
\* job for it is queued, with the flag and the cursor of the ended cycle.
C17_Witness ==
    /\ outcome = "react_failed"
    /\ posts["a"] = 1
    /\ "a" \notin replied_ids
    /\ jobs = <<>>
    /\ ~poll_in_progress
    /\ last_seen_id = Fullname([id |-> "a", has_trigger |-> TRUE])

\* C18: a job that fails leaves the worker at the top of its loop; the worker
\* leaves the loop only from its top and only with the stop signal raised; at
\* the top without the signal its next step is the get, which is never
\* blocked and takes a job whenever one is queued.
C18_FailureKeepsWorker ==
    [][/\ JobFails => w_pc' = "loop"
       /\ (w_pc' = "done" /\ w_pc # "done") => (w_pc = "loop" /\ stop_event)
       /\ (w_pc = "loop" /\ ~stop_event /\ w_pc' # w_pc) => w_pc' = "get"
       /\ (w_pc = "get" /\ jobs # <<>> /\ w_pc' # w_pc) =>
              (job' = jobs[PopIndex(jobs)] /\ w_pc' \in {"poll_cursor", "react_check"})
       /\ w_pc \in {"loop", "get"} => ENABLED (WorkerCheckStop \/ WorkerGet)]_vars

\* C18 witness: a reply job has failed before any reply was posted and the
\* worker, not stopped, has taken the next reply job from the queue.
C18_Witness ==
    /\ outcome = "react_failed"
    /\ job.kind = "fetch_and_reply"
    /\ w_pc = "react_check"
    /\ ~stop_event
    /\ ~poll_in_progress
    /\ posts = [c \in CommentIds |-> 0]

\* C19: poll jobs are queued with priority 1 and reply jobs with priority 2,
\* and whenever a poll job is queued, the get takes a poll job and leaves
\* every queued reply job on the queue, whatever the order of the puts.
C19_PollBeforeReact ==
    [][/\ \A i \in 1..Len(jobs) :
              jobs[i].priority = IF jobs[i].kind = "poll" THEN PollPriority ELSE ReactPriority
       /\ (Len(jobs') < Len(jobs) /\ NumPolls(jobs) >= 1) =>
              /\ job'.kind = "poll"
              /\ NumPolls(jobs') = NumPolls(jobs) - 1
              /\ Len(jobs') - NumPolls(jobs') = Len(jobs) - NumPolls(jobs)]_vars

\* C19 witness: a full page pushed a reply job and then the chained poll job;
\* the worker has taken the chained poll job and the reply job, pushed before
\* it, is still queued.
C19_Witness ==
    /\ w_pc = "poll_cursor"
    /\ job.kind = "poll"
    /\ outcome = "poll_chained"
    /\ \E i \in 1..Len(jobs) :
           jobs[i].kind = "fetch_and_reply" /\ jobs[i].sequence < job.sequence

\* The worker is about to call mark_replied, in either branch.
AtMark == w_pc \in {"react_fallback_mark", "react_mark"}

\* C20: the ledger is changed only by the mark_replied of a reply job, which
\* adds the id of the job's comment, and a reply job comes to its mark_replied
\* only by the step on which its post_reply, of the same branch, returned
\* without an error; so every id of the ledger has had its reply posted.
C20_LedgerOnlyAfterPost ==
    [][/\ replied_ids' # replied_ids =>
              /\ AtMark
              /\ job.kind = "fetch_and_reply"
              /\ replied_ids' = replied_ids \cup {job.comment_id}
       /\ (AtMark' /\ ~AtMark) =>
              /\ w_pc = IF w_pc' = "react_mark" THEN "react_post" ELSE "react_fallback_post"
              /\ job' = job
              /\ posts'[job.comment_id] = posts[job.comment_id] + 1
       /\ \A c \in replied_ids : posts[c] >= 1]_vars

\* C20 witness: the reply to b was called and its job failed, so b is not in
\* the ledger; the reply to a returned and a is.
C20_Witness ==
    /\ replied_ids = {"a"}
    /\ posts["a"] = 1
    /\ posts["b"] = 1
    /\ outcome = "react_replied"
    /\ w_pc = "loop"
====
